---- MODULE Spec2Model ----
(***************************************************************************)
(* A model of the resource-remover mutating admission webhook.             *)
(*                                                                         *)
(* Two builds of the program are in the source tree: src/main.go, whose    *)
(* pod handler removes requests and limits and which serves /mutate and    *)
(* /healthz, and src/unnamed/part_003, whose pod handler divides requests  *)
(* by five and which also serves /mutate-hpa and /mutate-replicas.  The    *)
(* variable build says which of the two is running.                        *)
(*                                                                         *)
(* JSON text that the program formats or that is parsed again (quantities, *)
(* decimal numbers) is a sequence of one-character strings; JSON Pointer   *)
(* paths are sequences of reference tokens; an optional JSON member is a   *)
(* sequence of length 0 (absent) or 1 (present).                           *)
(***************************************************************************)
EXTENDS Integers, Sequences, FiniteSets, TLC

VARIABLES build, conn, object, outcome, patched, round

vars == <<build, conn, object, outcome, patched, round>>

----------------------------------------------------------------------------
(* Optional values and small helpers.                                      *)

None == <<>>

Some(x) == <<x>>

IsSome(o) == Len(o) = 1

Get(o) == o[1]

Range(s) == {s[i] : i \in 1..Len(s)}

\* A Go map[string]T decoded from a JSON object: a function on its keys.
EmptyMap == [k \in {} |-> <<>>]

HasKey(m, k) == k \in DOMAIN m

\* delete(m, k) / the JSON object m without member k
MapRemove(m, k) == [x \in (DOMAIN m) \ {k} |-> m[x]]

\* m[k] = v on a JSON object
MapPut(m, k, v) == [x \in (DOMAIN m) \cup {k} |-> IF x = k THEN v ELSE m[x]]

----------------------------------------------------------------------------
(* Decimal text: fmt.Sprintf("%d", n) and its inverse.                     *)

Digits == <<"0", "1", "2", "3", "4", "5", "6", "7", "8", "9">>

DigitChars == Range(Digits)

DigitValue(ch) == (CHOOSE i \in 1..10 : Digits[i] = ch) - 1

RECURSIVE FormatNat(_)
FormatNat(n) ==
  IF n < 10 THEN <<Digits[n + 1]>>
  ELSE FormatNat(n \div 10) \o <<Digits[(n % 10) + 1]>>

\* fmt.Sprintf("%d", n)
FormatInt(n) == IF n < 0 THEN <<"-">> \o FormatNat(0 - n) ELSE FormatNat(n)

RECURSIVE ParseNat(_)
ParseNat(s) ==
  IF Len(s) = 0 THEN 0
  ELSE ParseNat(SubSeq(s, 1, Len(s) - 1)) * 10 + DigitValue(s[Len(s)])

\* Go's integer division truncates toward zero.
GoDiv(a, b) == IF a >= 0 THEN a \div b ELSE 0 - ((0 - a) \div b)

\* ceil(a / b) for b > 0, rounding toward positive infinity
CeilDiv(a, b) == 0 - ((0 - a) \div b)

----------------------------------------------------------------------------
(* resource.Quantity of k8s.io/apimachinery, as the handlers use it: the   *)
(* JSON string is parsed when the pod is decoded, and MilliValue() and     *)
(* Value() read it.  The quantities modelled are an optional sign, decimal *)
(* digits and one of the suffixes below (no fractions or exponents).       *)

Suffixes == {<<>>, <<"m">>, <<"k">>, <<"M">>, <<"K", "i">>, <<"M", "i">>, <<"G", "i">>}

\* The multiplier of a suffix other than "m", in units.
SuffixScale(suf) ==
  CASE suf = <<>> -> 1
    [] suf = <<"k">> -> 1000
    [] suf = <<"M">> -> 1000000
    [] suf = <<"K", "i">> -> 1024
    [] suf = <<"M", "i">> -> 1024 * 1024
    [] suf = <<"G", "i">> -> 1024 * 1024 * 1024

\* The number of leading characters of s that are digits.
RECURSIVE DigitPrefix(_)
DigitPrefix(s) ==
  IF Len(s) = 0 \/ s[1] \notin DigitChars THEN 0
  ELSE 1 + DigitPrefix(Tail(s))

\* resource.ParseQuantity: [ok, n, suffix]; ok is FALSE for text that is no
\* quantity, which makes the decode of the object that holds it fail.
ParseQuantity(s) ==
  LET neg == Len(s) > 0 /\ s[1] = "-"
      body == IF neg THEN Tail(s) ELSE s
      nd == DigitPrefix(body)
      suf == SubSeq(body, nd + 1, Len(body))
      mag == ParseNat(SubSeq(body, 1, nd))
  IN IF nd = 0 \/ suf \notin Suffixes
       THEN [ok |-> FALSE, n |-> 0, suffix |-> <<>>]
       ELSE [ok |-> TRUE, n |-> IF neg THEN 0 - mag ELSE mag, suffix |-> suf]

\* Quantity.MilliValue(): the value in thousandths, rounded up.
MilliValue(q) ==
  IF q.suffix = <<"m">> THEN q.n ELSE q.n * SuffixScale(q.suffix) * 1000

\* Quantity.Value(): the value in units, rounded up.
Value(q) ==
  IF q.suffix = <<"m">> THEN CeilDiv(q.n, 1000) ELSE q.n * SuffixScale(q.suffix)

----------------------------------------------------------------------------
(* The objects under admission, as the JSON the API server sends.  Every   *)
(* object has the same members; a member a kind does not use is absent.    *)
(*   metadata: namespace, annotations (optional map of strings)            *)
(*   spec: containers, initContainers (lists of containers),               *)
(*         minReplicas, maxReplicas, replicas (optional integers)          *)
(*   container: resources.requests, resources.limits (optional maps from   *)
(*         a resource name to the text of a quantity)                      *)

SkipAnnotation == "resource-remover.nais.io/skip"

SafeToEvictAnnotation == "cluster-autoscaler.kubernetes.io/safe-to-evict"

\* The annotation key as a JSON Pointer reference token ("/" written "~1").
SafeToEvictToken == "cluster-autoscaler.kubernetes.io~1safe-to-evict"

ResourceCPU == "cpu"

ResourceMemory == "memory"

ResourceEphemeralStorage == "ephemeral-storage"

\* RFC 6901: a reference token read back as the member name it stands for.
Unescape(tok) == IF tok = SafeToEvictToken THEN SafeToEvictAnnotation ELSE tok

\* fmt.Sprintf("%d", i) for a list index i (0-based) as a reference token
IndexToken(i) == ToString(i)

\* JSON values carried by a patch operation.
JString(chars) == [t |-> "string", s |-> chars, n |-> 0]

JNumber(k) == [t |-> "number", s |-> <<>>, n |-> k]

\* The members of spec that hold a list of containers / an optional integer.
ContainerLists == {"containers", "initContainers"}

ReplicaFields == {"minReplicas", "maxReplicas", "replicas"}

ResourceLists == {"requests", "limits"}

\* The position (1-based) in list l that reference token tok names, 0 if none.
TokenIndex(l, tok) ==
  IF \E i \in 1..Len(l) : IndexToken(i - 1) = tok
    THEN CHOOSE i \in 1..Len(l) : IndexToken(i - 1) = tok
    ELSE 0

\* Whether the JSON Pointer path names a member that exists in obj.
PathExists(obj, path) ==
  CASE Len(path) = 3 /\ path[1] = "metadata" /\ path[2] = "annotations" ->
         /\ IsSome(obj.metadata.annotations)
         /\ HasKey(Get(obj.metadata.annotations), Unescape(path[3]))
    [] Len(path) = 2 /\ path[1] = "spec" /\ path[2] \in ReplicaFields ->
         IsSome(obj.spec[path[2]])
    [] Len(path) = 6 /\ path[1] = "spec" /\ path[2] \in ContainerLists
         /\ path[4] = "resources" /\ path[5] \in ResourceLists ->
         LET i == TokenIndex(obj.spec[path[2]], path[3])
         IN /\ i > 0
            /\ IsSome(obj.spec[path[2]][i].resources[path[5]])
            /\ HasKey(Get(obj.spec[path[2]][i].resources[path[5]]), path[6])
    [] OTHER -> FALSE

\* Whether the parent of the member that path names exists in obj: what an
\* add needs.
ParentExists(obj, path) ==
  CASE Len(path) = 3 /\ path[1] = "metadata" /\ path[2] = "annotations" ->
         IsSome(obj.metadata.annotations)
    [] Len(path) = 2 /\ path[1] = "spec" /\ path[2] \in ReplicaFields -> TRUE
    [] Len(path) = 6 /\ path[1] = "spec" /\ path[2] \in ContainerLists
         /\ path[4] = "resources" /\ path[5] \in ResourceLists ->
         LET i == TokenIndex(obj.spec[path[2]], path[3])
         IN i > 0 /\ IsSome(obj.spec[path[2]][i].resources[path[5]])
    [] OTHER -> FALSE

\* obj with the member at path set to JSON value v (the parent exists).
SetMember(obj, path, v) ==
  CASE path[1] = "metadata" ->
         [obj EXCEPT !.metadata.annotations =
            Some(MapPut(Get(@), Unescape(path[3]), v.s))]
    [] Len(path) = 2 ->
         [obj EXCEPT !.spec[path[2]] = Some(v.n)]
    [] OTHER ->
         LET i == TokenIndex(obj.spec[path[2]], path[3])
         IN [obj EXCEPT !.spec[path[2]][i].resources[path[5]] =
               Some(MapPut(Get(@), path[6], v.s))]

\* obj without the member at path (the member exists).
RemoveMember(obj, path) ==
  CASE path[1] = "metadata" ->
         [obj EXCEPT !.metadata.annotations =
            Some(MapRemove(Get(@), Unescape(path[3])))]
    [] Len(path) = 2 ->
         [obj EXCEPT !.spec[path[2]] = None]
    [] OTHER ->
         LET i == TokenIndex(obj.spec[path[2]], path[3])
         IN [obj EXCEPT !.spec[path[2]][i].resources[path[5]] =
               Some(MapRemove(Get(@), path[6]))]

\* RFC 6902: whether one operation can be applied to obj.  remove and replace
\* need the target to exist; add needs the target's parent and replaces a
\* member that is already there.
OpApplies(obj, p) ==
  IF p.op = "add" THEN ParentExists(obj, p.path) ELSE PathExists(obj, p.path)

ApplyOp(obj, p) ==
  IF p.op = "remove" THEN RemoveMember(obj, p.path)
  ELSE SetMember(obj, p.path, Get(p.value))

\* The API server applying a JSON Patch: the operations in list order, all or
\* nothing.  [ok, obj]: ok is FALSE when some operation cannot be applied,
\* and the object is then left as it was.
RECURSIVE ApplyFrom(_, _, _)
ApplyFrom(obj, ops, i) ==
  IF i > Len(ops) THEN [ok |-> TRUE, obj |-> obj]
  ELSE IF ~OpApplies(obj, ops[i]) THEN [ok |-> FALSE, obj |-> obj]
  ELSE ApplyFrom(ApplyOp(obj, ops[i]), ops, i + 1)

ApplyPatch(obj, ops) ==
  LET r == ApplyFrom(obj, ops, 1)
  IN IF r.ok THEN r ELSE [ok |-> FALSE, obj |-> obj]

----------------------------------------------------------------------------
(* type patchOperation and the ways a handler ends.                        *)

\* patchOperation{Op, Path, Value}; Value is omitted from the JSON when unset.
patchOperation(op, path, value) == [op |-> op, path |-> path, value |-> value]

\* http.Error(w, ..., code): a plain-text error, no admission response.
httpError(code) == [status |-> code, panic |-> FALSE, review |-> None]

StatusBadRequest == 400

StatusInternalServerError == 500

StatusOK == 200

\* w.Write(respBytes): the AdmissionReview that carries response.
writeReview(response) == [status |-> StatusOK, panic |-> FALSE, review |-> Some(response)]

\* A nil pointer dereference in the handler: net/http recovers the panic and
\* closes the connection; no status line and no body were written.
nilDereference == [status |-> 0, panic |-> TRUE, review |-> None]

\* json.Marshal(patches): a nil slice is the JSON text null, any other the
\* array of its operations.  Strings and integers always marshal.
Marshal(patches) ==
  [err |-> FALSE,
   bytes |-> [json |-> IF patches = <<>> THEN "null" ELSE "array", ops |-> patches]]

PatchTypeJSONPatch == "JSONPatch"

\* A slip: Allowed left at its zero value.
allowResponse_allowedUnset(uid) ==
  [uid |-> uid, allowed |-> FALSE, patchType |-> None, patch |-> None]

\* The AdmissionResponse of the skip path: UID and Allowed only.
allowResponse(uid) ==
  [uid |-> uid, allowed |-> TRUE, patchType |-> None, patch |-> None]

\* A slip: UID left at its zero value.
patchResponse_noUID(uid, patchBytes) ==
  [uid |-> "", allowed |-> TRUE,
   patchType |-> Some(PatchTypeJSONPatch), patch |-> Some(patchBytes)]

\* A variant: the patch fields are set only for a list with operations.
patchResponse_omitEmpty(uid, patchBytes) ==
  IF patchBytes.ops = <<>>
    THEN [uid |-> uid, allowed |-> TRUE, patchType |-> None, patch |-> None]
    ELSE [uid |-> uid, allowed |-> TRUE,
          patchType |-> Some(PatchTypeJSONPatch), patch |-> Some(patchBytes)]

\* The AdmissionResponse of the patch path: PatchType and Patch always set.
patchResponse(uid, patchBytes) ==
  [uid |-> uid, allowed |-> TRUE,
   patchType |-> Some(PatchTypeJSONPatch), patch |-> Some(patchBytes)]

\* A slip: the value compared without regard to case (strings.EqualFold).
skipAnnotated_anyCase(annotations) ==
  /\ IsSome(annotations)
  /\ HasKey(Get(annotations), SkipAnnotation)
  /\ Get(annotations)[SkipAnnotation] \in {"true", "True", "TRUE"}

\* The skip annotation: present and exactly "true" (a nil map has no keys).
skipAnnotated(annotations) ==
  /\ IsSome(annotations)
  /\ HasKey(Get(annotations), SkipAnnotation)
  /\ Get(annotations)[SkipAnnotation] = "true"

----------------------------------------------------------------------------
(* json.Unmarshal of the embedded object into corev1.Pod.                  *)

\* A resource list decodes when each of its quantities parses.
ResourceListOk(rl) ==
  ~IsSome(rl) \/ \A k \in DOMAIN Get(rl) : ParseQuantity(Get(rl)[k]).ok

DecodeResourceList(rl) ==
  IF IsSome(rl) THEN Some([k \in DOMAIN Get(rl) |-> ParseQuantity(Get(rl)[k])])
  ELSE None

DecodeContainer(c) ==
  [Requests |-> DecodeResourceList(c.resources.requests),
   Limits |-> DecodeResourceList(c.resources.limits)]

\* raw is Request.Object.Raw: absent (no bytes) or a JSON value.
unmarshalPod(raw) ==
  IF ~IsSome(raw) \/ Get(raw).json # "object"
       \/ \E l \in ContainerLists : \E i \in 1..Len(Get(raw).spec[l]) :
            \E r \in ResourceLists :
              ~ResourceListOk(Get(raw).spec[l][i].resources[r])
    THEN [err |-> TRUE]
    ELSE [err |-> FALSE,
          Namespace |-> Get(raw).metadata.namespace,
          Annotations |-> Get(raw).metadata.annotations,
          Containers |->
            [i \in 1..Len(Get(raw).spec.containers) |->
               DecodeContainer(Get(raw).spec.containers[i])],
          InitContainers |->
            [i \in 1..Len(Get(raw).spec.initContainers) |->
               DecodeContainer(Get(raw).spec.initContainers[i])]]

\* A slip: the annotation removed whatever its value.
safeToEvictPatches_anyValue(pod) ==
  IF /\ IsSome(pod.Annotations)
     /\ HasKey(Get(pod.Annotations), SafeToEvictAnnotation)
    THEN <<patchOperation("remove", <<"metadata", "annotations", SafeToEvictToken>>, None)>>
    ELSE <<>>

\* The safe-to-evict="false" annotation is removed.
safeToEvictPatches(pod) ==
  IF /\ IsSome(pod.Annotations)
     /\ HasKey(Get(pod.Annotations), SafeToEvictAnnotation)
     /\ Get(pod.Annotations)[SafeToEvictAnnotation] = "false"
    THEN <<patchOperation("remove", <<"metadata", "annotations", SafeToEvictToken>>, None)>>
    ELSE <<>>

\* fmt.Sprintf("/spec/<list>/%d/resources/<rl>/<name>", i)
resourcePath(list, i, rl, name) ==
  <<"spec", list, IndexToken(i), "resources", rl, name>>

\* A slip: the memory limit forgotten.
removeLimits_cpuOnly(list, i, container) ==
  IF IsSome(container.Limits) /\ HasKey(Get(container.Limits), ResourceCPU)
    THEN <<patchOperation("remove", resourcePath(list, i, "limits", ResourceCPU), None)>>
    ELSE <<>>

\* A slip: both limits removed whenever there is a limits map, present or not.
removeLimits_unchecked(list, i, container) ==
  IF IsSome(container.Limits)
    THEN <<patchOperation("remove", resourcePath(list, i, "limits", ResourceCPU), None),
           patchOperation("remove", resourcePath(list, i, "limits", ResourceMemory), None)>>
    ELSE <<>>

\* Both builds: the limits of container i of a list, cpu then memory.
removeLimits(list, i, container) ==
  IF IsSome(container.Limits)
    THEN (IF HasKey(Get(container.Limits), ResourceCPU)
            THEN <<patchOperation("remove", resourcePath(list, i, "limits", ResourceCPU), None)>>
            ELSE <<>>)
         \o
         (IF HasKey(Get(container.Limits), ResourceMemory)
            THEN <<patchOperation("remove", resourcePath(list, i, "limits", ResourceMemory), None)>>
            ELSE <<>>)
    ELSE <<>>

----------------------------------------------------------------------------
(* The pod patch generators of the two builds.                             *)

\* src/main.go: the requests of container i of a list are removed.
removeRequests(list, i, container) ==
  IF IsSome(container.Requests)
    THEN (IF HasKey(Get(container.Requests), ResourceCPU)
            THEN <<patchOperation("remove", resourcePath(list, i, "requests", ResourceCPU), None)>>
            ELSE <<>>)
         \o
         (IF HasKey(Get(container.Requests), ResourceMemory)
            THEN <<patchOperation("remove", resourcePath(list, i, "requests", ResourceMemory), None)>>
            ELSE <<>>)
    ELSE <<>>

MinMemory == 1024 * 1024

\* A slip: the divisor of the one-tenth revision.
reducedCPU_tenth(cpu) ==
  LET r == GoDiv(MilliValue(cpu), 10)
  IN IF r < 1 THEN 1 ELSE r

\* part_003: reducedCPU := cpu.MilliValue() / 5, at least 1
reducedCPU(cpu) ==
  LET r == GoDiv(MilliValue(cpu), 5)
  IN IF r < 1 THEN 1 ELSE r

\* A slip: the memory request multiplied instead of divided.
reducedMem_multiplied(mem) ==
  LET r == Value(mem) * 5
  IN IF r < MinMemory THEN MinMemory ELSE r

\* part_003: reducedMem := mem.Value() / 5, at least 1024*1024
reducedMem(mem) ==
  LET r == GoDiv(Value(mem), 5)
  IN IF r < MinMemory THEN MinMemory ELSE r

\* part_003: the requests of container i of a list are replaced by a fifth.
reduceRequests(list, i, container) ==
  IF IsSome(container.Requests)
    THEN (IF HasKey(Get(container.Requests), ResourceCPU)
            THEN <<patchOperation("replace",
                     resourcePath(list, i, "requests", ResourceCPU),
                     Some(JString(FormatInt(reducedCPU(Get(container.Requests)[ResourceCPU]))
                                  \o <<"m">>)))>>
            ELSE <<>>)
         \o
         (IF HasKey(Get(container.Requests), ResourceMemory)
            THEN <<patchOperation("replace",
                     resourcePath(list, i, "requests", ResourceMemory),
                     Some(JString(FormatInt(reducedMem(Get(container.Requests)[ResourceMemory])))))>>
            ELSE <<>>)
    ELSE <<>>

\* for i, container := range <list>, src/main.go: requests, then limits
RECURSIVE rangeContainers_main(_, _, _)
rangeContainers_main(list, containers, i) ==
  IF i >= Len(containers) THEN <<>>
  ELSE removeRequests(list, i, containers[i + 1])
       \o removeLimits(list, i, containers[i + 1])
       \o rangeContainers_main(list, containers, i + 1)

\* for i, container := range <list>, part_003: requests, then limits
RECURSIVE rangeContainers(_, _, _)
rangeContainers(list, containers, i) ==
  IF i >= Len(containers) THEN <<>>
  ELSE reduceRequests(list, i, containers[i + 1])
       \o removeLimits(list, i, containers[i + 1])
       \o rangeContainers(list, containers, i + 1)

\* src/main.go: the patch list of a decoded pod that is not skipped
podPatches_main(pod) ==
  safeToEvictPatches(pod)
  \o rangeContainers_main("containers", pod.Containers, 0)
  \o rangeContainers_main("initContainers", pod.InitContainers, 0)

\* part_003: the patch list of a decoded pod that is not skipped
podPatches(pod) ==
  safeToEvictPatches(pod)
  \o rangeContainers("containers", pod.Containers, 0)
  \o rangeContainers("initContainers", pod.InitContainers, 0)

\* What every handler does with its patch list: marshal it, wrap it, write it.
respondWithPatches(uid, patches) ==
  LET m == Marshal(patches)
  IN IF m.err THEN httpError(StatusInternalServerError)
     ELSE writeReview(patchResponse(uid, m.bytes))

\* body is the HTTP request body: readErr (io.ReadAll fails), valid (the bytes
\* are the JSON of an AdmissionReview), request (its request member).
handleMutate_main(body) ==
  IF body.readErr THEN httpError(StatusBadRequest)
  ELSE IF ~body.valid THEN httpError(StatusBadRequest)
  ELSE IF ~IsSome(body.request) THEN nilDereference
  ELSE LET request == Get(body.request)
           pod == unmarshalPod(request.object)
       IN IF pod.err THEN httpError(StatusBadRequest)
          ELSE IF skipAnnotated(pod.Annotations)
            THEN writeReview(allowResponse(request.uid))
          ELSE respondWithPatches(request.uid, podPatches_main(pod))

\* A slip: a pod that does not decode is let through with an allow-only
\* response instead of the error.
handleMutate_failOpen(body) ==
  IF body.readErr THEN httpError(StatusBadRequest)
  ELSE IF ~body.valid THEN httpError(StatusBadRequest)
  ELSE IF ~IsSome(body.request) THEN nilDereference
  ELSE LET request == Get(body.request)
           pod == unmarshalPod(request.object)
       IN IF pod.err THEN writeReview(allowResponse(request.uid))
          ELSE IF skipAnnotated(pod.Annotations)
            THEN writeReview(allowResponse(request.uid))
          ELSE respondWithPatches(request.uid, podPatches(pod))

\* part_003: the pod handler.
handleMutate(body) ==
  IF body.readErr THEN httpError(StatusBadRequest)
  ELSE IF ~body.valid THEN httpError(StatusBadRequest)
  ELSE IF ~IsSome(body.request) THEN nilDereference
  ELSE LET request == Get(body.request)
           pod == unmarshalPod(request.object)
       IN IF pod.err THEN httpError(StatusBadRequest)
          ELSE IF skipAnnotated(pod.Annotations)
            THEN writeReview(allowResponse(request.uid))
          ELSE respondWithPatches(request.uid, podPatches(pod))

----------------------------------------------------------------------------
(* part_003: the HPA and replica handlers.                                 *)

\* json.Unmarshal into the handler's struct: MinReplicas *int32 (nil when
\* absent), MaxReplicas int32 (0 when absent).
unmarshalHPA(raw) ==
  IF ~IsSome(raw) \/ Get(raw).json # "object" THEN [err |-> TRUE]
  ELSE [err |-> FALSE,
        Annotations |-> Get(raw).metadata.annotations,
        MinReplicas |-> Get(raw).spec.minReplicas,
        MaxReplicas |-> IF IsSome(Get(raw).spec.maxReplicas)
                          THEN Get(Get(raw).spec.maxReplicas) ELSE 0]

\* A slip: maxReplicas lowered only when it is above 1.
hpaPatches_maxAboveOne(hpa) ==
  (IF ~IsSome(hpa.MinReplicas)
     THEN <<patchOperation("add", <<"spec", "minReplicas">>, Some(JNumber(1)))>>
     ELSE IF Get(hpa.MinReplicas) # 1
       THEN <<patchOperation("replace", <<"spec", "minReplicas">>, Some(JNumber(1)))>>
       ELSE <<>>)
  \o
  (IF hpa.MaxReplicas > 1
     THEN <<patchOperation("replace", <<"spec", "maxReplicas">>, Some(JNumber(1)))>>
     ELSE <<>>)

\* A slip: minReplicas replaced whenever it is present, 1 included.
hpaPatches_minAlwaysReplaced(hpa) ==
  (IF ~IsSome(hpa.MinReplicas)
     THEN <<patchOperation("add", <<"spec", "minReplicas">>, Some(JNumber(1)))>>
     ELSE <<patchOperation("replace", <<"spec", "minReplicas">>, Some(JNumber(1)))>>)
  \o
  (IF hpa.MaxReplicas # 1
     THEN <<patchOperation("replace", <<"spec", "maxReplicas">>, Some(JNumber(1)))>>
     ELSE <<>>)

\* The patch list of a decoded HPA that is not skipped.
hpaPatches(hpa) ==
  (IF ~IsSome(hpa.MinReplicas)
     THEN <<patchOperation("add", <<"spec", "minReplicas">>, Some(JNumber(1)))>>
     ELSE IF Get(hpa.MinReplicas) # 1
       THEN <<patchOperation("replace", <<"spec", "minReplicas">>, Some(JNumber(1)))>>
       ELSE <<>>)
  \o
  (IF hpa.MaxReplicas # 1
     THEN <<patchOperation("replace", <<"spec", "maxReplicas">>, Some(JNumber(1)))>>
     ELSE <<>>)

handleMutateHPA(body) ==
  IF body.readErr THEN httpError(StatusBadRequest)
  ELSE IF ~body.valid THEN httpError(StatusBadRequest)
  ELSE IF ~IsSome(body.request) THEN nilDereference
  ELSE LET request == Get(body.request)
           hpa == unmarshalHPA(request.object)
       IN IF hpa.err THEN httpError(StatusBadRequest)
          ELSE IF skipAnnotated(hpa.Annotations)
            THEN writeReview(allowResponse(request.uid))
          ELSE respondWithPatches(request.uid, hpaPatches(hpa))

\* json.Unmarshal into the handler's struct: Replicas *int32.
unmarshalWorkload(raw) ==
  IF ~IsSome(raw) \/ Get(raw).json # "object" THEN [err |-> TRUE]
  ELSE [err |-> FALSE,
        Annotations |-> Get(raw).metadata.annotations,
        Replicas |-> Get(raw).spec.replicas]

\* A slip: replace also when replicas is absent.
replicaPatches_alwaysReplace(workload) ==
  IF ~IsSome(workload.Replicas) \/ Get(workload.Replicas) # 1
    THEN <<patchOperation("replace", <<"spec", "replicas">>, Some(JNumber(1)))>>
    ELSE <<>>

\* The handler reads request.Kind.Kind for its log lines only.
replicaPatches(workload) ==
  IF ~IsSome(workload.Replicas)
    THEN <<patchOperation("add", <<"spec", "replicas">>, Some(JNumber(1)))>>
    ELSE IF Get(workload.Replicas) # 1
      THEN <<patchOperation("replace", <<"spec", "replicas">>, Some(JNumber(1)))>>
      ELSE <<>>

handleMutateReplicas(body) ==
  IF body.readErr THEN httpError(StatusBadRequest)
  ELSE IF ~body.valid THEN httpError(StatusBadRequest)
  ELSE IF ~IsSome(body.request) THEN nilDereference
  ELSE LET request == Get(body.request)
           workload == unmarshalWorkload(request.object)
       IN IF workload.err THEN httpError(StatusBadRequest)
          ELSE IF skipAnnotated(workload.Annotations)
            THEN writeReview(allowResponse(request.uid))
          ELSE respondWithPatches(request.uid, replicaPatches(workload))

\* w.WriteHeader(http.StatusOK); w.Write("ok")
handleHealth == [status |-> StatusOK, panic |-> FALSE, review |-> None]

\* main(): the routes each build registers.
Builds == {"main.go", "part_003"}

Routes(b) ==
  IF b = "main.go" THEN {"/mutate", "/healthz"}
  ELSE {"/mutate", "/mutate-hpa", "/mutate-replicas", "/healthz"}

\* The handler http.HandleFunc registered for a path, applied to a body.
ServeHTTP(b, path, body) ==
  CASE path = "/mutate" ->
         IF b = "main.go" THEN handleMutate_main(body) ELSE handleMutate(body)
    [] path = "/mutate-hpa" -> handleMutateHPA(body)
    [] path = "/mutate-replicas" -> handleMutateReplicas(body)
    [] path = "/healthz" -> handleHealth

----------------------------------------------------------------------------
(* The inputs: bodies a client can post and objects the API server admits. *)

\* Containers and init containers of a pod, together.
MaxContainers == 2

\* Times the API server sends an object back to the webhook after patching.
MaxRounds == 1

\* Connections the server has open at once.
MaxConn == 2

EmptySpec ==
  [containers |-> <<>>, initContainers |-> <<>>,
   minReplicas |-> None, maxReplicas |-> None, replicas |-> None]

Object(kind, apiVersion, namespace, annotations, spec) ==
  [json |-> "object", kind |-> kind, apiVersion |-> apiVersion,
   metadata |-> [namespace |-> namespace, annotations |-> annotations],
   spec |-> spec]

\* Bytes that are JSON but no JSON object, as Request.Object.Raw.
NotAnObject == [json |-> "string"]

Namespaces == {"default", "kube-system"}

SkipValues == {"true", "True", "TRUE", "1", ""}

SafeToEvictValues == {"false", "true", "False"}

\* Annotation maps of a pod: absent, empty, or a map over the two keys the
\* pod handler reads; both keys together only with safe-to-evict "false".
PodAnnotations ==
  {None} \cup
  {Some(m) : m \in
     {f \in UNION {[K -> SkipValues \cup SafeToEvictValues] :
                     K \in SUBSET {SkipAnnotation, SafeToEvictAnnotation}} :
        /\ HasKey(f, SkipAnnotation) => f[SkipAnnotation] \in SkipValues
        /\ HasKey(f, SafeToEvictAnnotation) => f[SafeToEvictAnnotation] \in SafeToEvictValues
        /\ DOMAIN f = {SkipAnnotation, SafeToEvictAnnotation} =>
             f[SafeToEvictAnnotation] = "false" /\ f[SkipAnnotation] \in {"true", "True"}}}

\* HPAs and workloads: the skip annotation only.
SkipAnnotations ==
  {a \in PodAnnotations : IsSome(a) => ~HasKey(Get(a), SafeToEvictAnnotation)}

\* Resource lists of a container, as JSON: absent, or some quantities.
RequestLists ==
  { None,
    Some([k \in {ResourceCPU, ResourceMemory} |->
            IF k = ResourceCPU THEN <<"1", "0", "0", "m">> ELSE <<"2", "0", "0", "M", "i">>]),
    Some([k \in {ResourceCPU, ResourceMemory, ResourceEphemeralStorage} |->
            IF k = ResourceCPU THEN <<"2", "m">>
            ELSE IF k = ResourceMemory THEN <<"5", "1", "2", "K", "i">> ELSE <<"1", "G", "i">>]) }

LimitLists ==
  { None,
    Some([k \in {ResourceCPU} |-> <<"5", "0", "0", "m">>]),
    Some([k \in {ResourceCPU, ResourceMemory, ResourceEphemeralStorage} |->
            IF k = ResourceCPU THEN <<"1">>
            ELSE IF k = ResourceMemory THEN <<"1", "G", "i">> ELSE <<"2", "G", "i">>]) }

Containers ==
  {[resources |-> [requests |-> r, limits |-> l]] : r \in RequestLists, l \in LimitLists}

\* Resource lists of an init container: empty, or some quantities.
InitRequestLists ==
  { Some(EmptyMap),
    Some([k \in {ResourceCPU, ResourceMemory} |->
            IF k = ResourceCPU THEN <<"0">> ELSE <<"6", "M", "i">>]),
    Some([k \in {ResourceCPU} |-> <<"-", "7", "m">>]) }

InitLimitLists ==
  { Some(EmptyMap),
    Some([k \in {ResourceMemory} |-> <<"1", "G", "i">>]) }

InitContainers ==
  {[resources |-> [requests |-> r, limits |-> l]] :
     r \in InitRequestLists, l \in InitLimitLists}

\* The pod specs with c containers and i init containers.
PodSpecsOf(c, i) ==
  {[EmptySpec EXCEPT !.containers = cs, !.initContainers = is] :
     cs \in [1..c -> Containers], is \in [1..i -> InitContainers]}

Pods ==
  {Object("Pod", "v1", ns, a, sp) :
     ns \in Namespaces, a \in PodAnnotations,
     sp \in UNION {PodSpecsOf(n[1], n[2]) :
                     n \in {x \in (0..MaxContainers) \X (0..MaxContainers) :
                              x[1] + x[2] <= MaxContainers}}}

\* The autoscaling API versions the README lists.
HPAVersions ==
  {"autoscaling/v1", "autoscaling/v2", "autoscaling/v2beta1", "autoscaling/v2beta2"}

ReplicaCounts == {-1, 0, 1, 2, 10}

OptionalCounts == {None} \cup {Some(n) : n \in ReplicaCounts}

HPAs ==
  {Object("HorizontalPodAutoscaler", v, ns, a,
          [EmptySpec EXCEPT !.minReplicas = lo, !.maxReplicas = hi]) :
     v \in HPAVersions, ns \in Namespaces, a \in SkipAnnotations,
     lo \in OptionalCounts, hi \in OptionalCounts}

Workloads ==
  {Object(k, "apps/v1", ns, a, [EmptySpec EXCEPT !.replicas = n]) :
     k \in {"Deployment", "StatefulSet"}, ns \in Namespaces,
     a \in SkipAnnotations, n \in OptionalCounts}

\* The path the webhook registration sends each kind to.
WebhookPath(kind) ==
  CASE kind = "Pod" -> "/mutate"
    [] kind = "HorizontalPodAutoscaler" -> "/mutate-hpa"
    [] OTHER -> "/mutate-replicas"

\* The objects the API server sends to a build: those whose path it serves.
AdmittedObjects(b) ==
  Pods \cup (IF "/mutate-hpa" \in Routes(b) THEN HPAs ELSE {})
       \cup (IF "/mutate-replicas" \in Routes(b) THEN Workloads ELSE {})

\* The AdmissionReview the API server posts for an object.
ReviewBody(uid, kind, raw) ==
  [readErr |-> FALSE, valid |-> TRUE,
   request |-> Some([uid |-> uid, kind |-> kind, object |-> raw])]


\* A few objects of each kind for the server under concurrent requests.
SampleContainer ==
  [resources |->
     [requests |-> Some([k \in {ResourceCPU, ResourceMemory} |->
                           IF k = ResourceCPU THEN <<"1", "0", "0", "m">>
                           ELSE <<"2", "0", "0", "M", "i">>]),
      limits |-> Some([k \in {ResourceCPU} |-> <<"5", "0", "0", "m">>])]]

\* A container whose cpu limit is text that is no quantity.
NoQuantityContainer ==
  [resources |->
     [requests |-> None,
      limits |-> Some([k \in {ResourceCPU} |-> <<"l", "o", "t", "s">>])]]

SkipTrue == Some([k \in {SkipAnnotation} |-> "true"])

SamplePods ==
  { Object("Pod", "v1", "default", None, [EmptySpec EXCEPT !.containers = <<SampleContainer>>]),
    Object("Pod", "v1", "default", SkipTrue, [EmptySpec EXCEPT !.containers = <<SampleContainer>>]),
    Object("Pod", "v1", "default", Some(EmptyMap), EmptySpec),
    Object("Pod", "v1", "default", None,
           [EmptySpec EXCEPT !.containers = <<NoQuantityContainer>>]) }

SampleHPAs ==
  { Object("HorizontalPodAutoscaler", "autoscaling/v2", "default", None,
           [EmptySpec EXCEPT !.maxReplicas = Some(10)]),
    Object("HorizontalPodAutoscaler", "autoscaling/v2", "default", SkipTrue,
           [EmptySpec EXCEPT !.maxReplicas = Some(10)]),
    Object("HorizontalPodAutoscaler", "autoscaling/v1", "default", None,
           [EmptySpec EXCEPT !.minReplicas = Some(1), !.maxReplicas = Some(1)]) }

SampleWorkloads ==
  { Object("Deployment", "apps/v1", "default", None, [EmptySpec EXCEPT !.replicas = Some(3)]),
    Object("Deployment", "apps/v1", "default", SkipTrue, [EmptySpec EXCEPT !.replicas = Some(3)]),
    Object("Deployment", "apps/v1", "default", None, [EmptySpec EXCEPT !.replicas = Some(1)]) }

SampleObjects(path) ==
  CASE path = "/mutate" -> SamplePods
    [] path = "/mutate-hpa" -> SampleHPAs
    [] path = "/mutate-replicas" -> SampleWorkloads
    [] OTHER -> {}

UIDs == {"uid-1", "uid-2"}

\* A body that cannot be read, bytes that are no AdmissionReview, and an
\* AdmissionReview without a request member.
UnreadableBody == [readErr |-> TRUE, valid |-> FALSE, request |-> None]

GarbageBody == [readErr |-> FALSE, valid |-> FALSE, request |-> None]

NoRequestBody == [readErr |-> FALSE, valid |-> TRUE, request |-> None]

\* The bodies posted to a path of the server.
Bodies(path) ==
  IF path = "/healthz" THEN {GarbageBody}
  ELSE {UnreadableBody, GarbageBody, NoRequestBody} \cup
       {ReviewBody(uid, IF IsSome(raw) /\ Get(raw).json = "object" THEN Get(raw).kind ELSE "",
                   raw) :
          uid \in UIDs,
          raw \in {None, Some(NotAnObject)} \cup {Some(o) : o \in SampleObjects(path)}}

----------------------------------------------------------------------------
(* The server: connections, each served by its own goroutine.              *)

Conns == 1..MaxConn

IdleConn == [state |-> "idle", path |-> "", body |-> GarbageBody, out |-> None]

NoObject == Object("Pod", "v1", "default", None, EmptySpec)

Init ==
  /\ build \in Builds
  /\ conn = [c \in Conns |-> IdleConn]
  /\ object = NoObject
  /\ outcome = None
  /\ patched = None
  /\ round = 0

\* net/http accepts a request on connection c and starts its handler.
Accept(c) ==
  /\ conn[c].state = "idle"
  /\ \E path \in Routes(build) : \E body \in Bodies(path) :
       conn' = [conn EXCEPT ![c] =
                  [state |-> "inflight", path |-> path, body |-> body, out |-> None]]
  /\ UNCHANGED <<build, object, outcome, patched, round>>

\* The handler of connection c's path runs to its end.
Serve(c, path) ==
  /\ conn[c].state = "inflight"
  /\ conn[c].path = path
  /\ conn' = [conn EXCEPT ![c].state = "done",
                          ![c].out = Some(ServeHTTP(build, path, conn[c].body))]
  /\ UNCHANGED <<build, object, outcome, patched, round>>

Mutate(c) == Serve(c, "/mutate")

MutateHPA(c) == Serve(c, "/mutate-hpa")

MutateReplicas(c) == Serve(c, "/mutate-replicas")

Health(c) == Serve(c, "/healthz")

\* The client has read the outcome; the connection takes the next request.
Close(c) ==
  /\ conn[c].state = "done"
  /\ conn' = [conn EXCEPT ![c] = IdleConn]
  /\ UNCHANGED <<build, object, outcome, patched, round>>

Next ==
  \E c \in Conns :
    \/ Accept(c)
    \/ Mutate(c)
    \/ MutateHPA(c)
    \/ MutateReplicas(c)
    \/ Health(c)
    \/ Close(c)

Spec == Init /\ [][Next]_vars

----------------------------------------------------------------------------
(* The API server admitting one object: it posts the object to the         *)
(* webhook, applies the JSON Patch of the response, and may send the       *)
(* patched object to the webhook again.                                    *)

AdmitInit ==
  /\ build \in Builds
  /\ conn = [c \in Conns |-> IdleConn]
  /\ object \in AdmittedObjects(build)
  /\ outcome = None
  /\ patched = None
  /\ round = 0

\* The webhook is called with the object and its handler answers.
Review ==
  /\ outcome = None
  /\ outcome' = Some(ServeHTTP(build, WebhookPath(object.kind),
                               ReviewBody("uid-1", object.kind, Some(object))))
  /\ UNCHANGED <<build, conn, object, patched, round>>

\* The operations an admission response carries: jsonpatch.DecodePatch of
\* its patch, none when it has no patch.
ResponseOps(response) ==
  IF IsSome(response.patch) THEN Get(response.patch).ops ELSE <<>>

\* The API server applies the patch of the response to the object.
Patch ==
  /\ IsSome(outcome)
  /\ IsSome(Get(outcome).review)
  /\ patched = None
  /\ patched' = Some(ApplyPatch(object, ResponseOps(Get(Get(outcome).review))))
  /\ UNCHANGED <<build, conn, object, outcome, round>>

\* The patched object is admitted again.
Resubmit ==
  /\ IsSome(patched)
  /\ Get(patched).ok
  /\ round < MaxRounds
  /\ object' = Get(patched).obj
  /\ outcome' = None
  /\ patched' = None
  /\ round' = round + 1
  /\ UNCHANGED <<build, conn>>

AdmitNext == Review \/ Patch \/ Resubmit

AdmitSpec == AdmitInit /\ [][AdmitNext]_vars

----------------------------------------------------------------------------
(* What the properties read from a state.                                  *)

\* Connection c holds a finished request that was answered with a review.
Answered(c) ==
  /\ conn[c].state = "done"
  /\ IsSome(Get(conn[c].out).review)

ResponseOf(c) == Get(Get(conn[c].out).review)

\* The object of the request on connection c (the request has one).
RequestObject(c) == Get(Get(conn[c].body.request).object)

\* The annotations carry the skip key with the value "true".
SkipIsTrue(o) ==
  /\ o.metadata.annotations # None
  /\ SkipAnnotation \in DOMAIN o.metadata.annotations[1]
  /\ o.metadata.annotations[1][SkipAnnotation] = "true"

\* The webhook has answered the API server's review of object.
Reviewed == IsSome(outcome) /\ IsSome(Get(outcome).review)

Response == Get(Get(outcome).review)

\* An allow-only response: no patch and no patch type.
AllowOnly(r) == r.allowed /\ r.patch = None /\ r.patchType = None

----------------------------------------------------------------------------
(* C1: every admission response carries the UID of the request it answers, *)
(* whatever other requests are in flight or answered on other connections. *)
C1_UidEchoed ==
  \A c \in Conns :
    Answered(c) => ResponseOf(c).uid = Get(conn[c].body.request).uid

\* Two requests with different UIDs, one answered on the patch path while
\* the other is still in flight, and two answered side by side.
C1_Witness ==
  \E c, d \in Conns :
    /\ Answered(c) /\ ResponseOf(c).uid = "uid-1" /\ ResponseOf(c).patch # None
    /\ conn[d].state \in {"inflight", "done"}
    /\ IsSome(conn[d].body.request)
    /\ Get(conn[d].body.request).uid = "uid-2"
    /\ conn[d].state = "done" => Answered(d) /\ ResponseOf(d).patch = None

(* C2: every admission response has allowed = true: on the skip path, on   *)
(* the patch path with operations and on the patch path with none.         *)
C2_AlwaysAllowed ==
  \A c \in Conns : Answered(c) => ResponseOf(c).allowed = TRUE

\* A skip response and a patch response whose list is empty, side by side.
C2_Witness ==
  \E c, d \in Conns :
    /\ Answered(c) /\ ResponseOf(c).patch = None
    /\ Answered(d) /\ ResponseOf(d).patch # None
    /\ Get(ResponseOf(d).patch).ops = <<>>

(* C3 as stated: patch and patchType are populated only when the patch     *)
(* list is not empty.                                                      *)
C3_PatchOnlyWhenNonEmpty ==
  \A c \in Conns :
    Answered(c) /\ (ResponseOf(c).patch # None \/ ResponseOf(c).patchType # None)
      => Get(ResponseOf(c).patch).ops # <<>>

(* C3 amended: patch and patchType are absent exactly on the skip path; on *)
(* the patch path both are populated, the patch type is JSONPatch, and the *)
(* patch of an empty list is the JSON text null.                           *)
C3_PatchFieldsOffSkipPath ==
  \A c \in Conns :
    Answered(c) =>
      LET r == ResponseOf(c)
      IN /\ (r.patch = None) = SkipIsTrue(RequestObject(c))
         /\ (r.patchType = None) = (r.patch = None)
         /\ r.patch # None =>
              /\ r.patchType = <<"JSONPatch">>
              /\ (Get(r.patch).json = "null") = (Get(r.patch).ops = <<>>)

\* A pod that needs no mutation answered with patch type and a null patch.
C3_Witness ==
  \E c \in Conns :
    /\ Answered(c)
    /\ conn[c].path = "/mutate"
    /\ ~SkipIsTrue(RequestObject(c))
    /\ ResponseOf(c).patchType # None
    /\ Get(ResponseOf(c).patch).json = "null"

(* C4: a Pod, HPA or Deployment request is answered on the skip path       *)
(* (allowed, no patch fields, no operations) exactly when its annotations  *)
(* hold the skip key with the value "true"; any other value, an absent key *)
(* and an absent map are answered with a patch.                            *)
C4_SkipIffTrue ==
  IsSome(outcome) =>
    /\ Reviewed
    /\ Response.allowed
    /\ AllowOnly(Response) = SkipIsTrue(object)
    /\ SkipIsTrue(object) => ResponseOps(Response) = <<>>
    /\ ~SkipIsTrue(object) => Response.patch # None

\* A skipped pod that also carries safe-to-evict "false" and limits.
C4_Witness ==
  /\ Reviewed
  /\ object.kind = "Pod"
  /\ SkipIsTrue(object)
  /\ SafeToEvictAnnotation \in DOMAIN object.metadata.annotations[1]
  /\ Len(object.spec.containers) > 0
  /\ object.spec.containers[1].resources.limits # None
  /\ AllowOnly(Response)

(* C5: a request whose object is in the excluded namespace kube-system is  *)
(* answered with an allowed response that carries no patch operation.      *)
C5_ExcludedNamespaceUnpatched ==
  IsSome(outcome) /\ object.metadata.namespace = "kube-system" =>
    Reviewed /\ Response.allowed /\ ResponseOps(Response) = <<>>


----------------------------------------------------------------------------
(* Pods, as the properties of the pod generator read them.                 *)

\* A pod the handler does not skip.
UnskippedPod == object.kind = "Pod" /\ ~SkipIsTrue(object)

\* The places <<list, position>> of the containers of a pod.
Places(o) ==
  {<<l, i>> : l \in {"containers"}, i \in 1..Len(o.spec.containers)} \cup
  {<<l, i>> : l \in {"initContainers"}, i \in 1..Len(o.spec.initContainers)}

\* Whether the container at place p of o declares resource name under rl.
Declares(o, p, rl, name) ==
  /\ o.spec[p[1]][p[2]].resources[rl] # None
  /\ name \in DOMAIN o.spec[p[1]][p[2]].resources[rl][1]

\* The text o declares there.
Declared(o, p, rl, name) == o.spec[p[1]][p[2]].resources[rl][1][name]

\* The JSON Pointer of that member: the index is the position counted from 0.
PointerTo(p, rl, name) == <<"spec", p[1], ToString(p[2] - 1), "resources", rl, name>>

Max(a, b) == IF a >= b THEN a ELSE b

\* The operations of the response that target a path.
OpsAt(path) ==
  {k \in 1..Len(ResponseOps(Response)) : ResponseOps(Response)[k].path = path}

C7_RequestsScaled ==
  build = "part_003" /\ UnskippedPod /\ Reviewed =>
    \A p \in Places(object) :
      /\ Declares(object, p, "requests", "cpu") =>
           \E k \in OpsAt(PointerTo(p, "requests", "cpu")) :
             LET o == ResponseOps(Response)[k]
                 V == MilliValue(ParseQuantity(Declared(object, p, "requests", "cpu")))
             IN /\ o.op = "replace"
                /\ o.value # None /\ o.value[1].t = "string"
                /\ ParseQuantity(o.value[1].s) =
                     [ok |-> TRUE, n |-> Max(V \div 5, 1), suffix |-> <<"m">>]
      /\ Declares(object, p, "requests", "memory") =>
           \E k \in OpsAt(PointerTo(p, "requests", "memory")) :
             LET o == ResponseOps(Response)[k]
                 B == Value(ParseQuantity(Declared(object, p, "requests", "memory")))
             IN /\ o.op = "replace"
                /\ o.value # None /\ o.value[1].t = "string"
                /\ ParseQuantity(o.value[1].s) =
                     [ok |-> TRUE, n |-> Max(B \div 5, 1048576), suffix |-> <<>>]

\* The examples: 100m becomes "20m", 200Mi becomes 41943040 and 2m becomes
\* "1m"; an init container's -7m becomes "1m" as well.
C7_Witness ==
  /\ build = "part_003" /\ UnskippedPod /\ Reviewed
  /\ Len(object.spec.containers) = 2
  /\ Declares(object, <<"containers", 1>>, "requests", "memory")
  /\ Declares(object, <<"containers", 2>>, "requests", "cpu")
  /\ Declared(object, <<"containers", 1>>, "requests", "cpu") = <<"1", "0", "0", "m">>
  /\ Declared(object, <<"containers", 1>>, "requests", "memory") = <<"2", "0", "0", "M", "i">>
  /\ Declared(object, <<"containers", 2>>, "requests", "cpu") = <<"2", "m">>
  /\ \E k \in OpsAt(<<"spec", "containers", "0", "resources", "requests", "cpu">>) :
       ResponseOps(Response)[k].value[1].s = <<"2", "0", "m">>
  /\ \E k \in OpsAt(<<"spec", "containers", "0", "resources", "requests", "memory">>) :
       ResponseOps(Response)[k].value[1].s = <<"4", "1", "9", "4", "3", "0", "4", "0">>
  /\ \E k \in OpsAt(<<"spec", "containers", "1", "resources", "requests", "cpu">>) :
       ResponseOps(Response)[k].value[1].s = <<"1", "m">>

\* Some container or init container of o declares a cpu or memory request.
DeclaresRequests(o) ==
  \E p \in Places(o) : \E name \in {"cpu", "memory"} : Declares(o, p, "requests", name)

(* C8 as stated: the pod generator run on a pod to which its own patch     *)
(* list was applied yields an empty patch list.                            *)
C8_PodIdempotent ==
  UnskippedPod /\ round >= 1 /\ Reviewed => ResponseOps(Response) = <<>>

(* C8 amended: the second run yields an empty patch list in the build that *)
(* removes requests (src/main.go), and in the build that scales them       *)
(* (part_003) exactly for the pods that declare no cpu or memory request:  *)
(* a declared request is replaced again on every run.                      *)
C8_PodIdempotentUnlessScaled ==
  UnskippedPod /\ round >= 1 /\ Reviewed =>
    (ResponseOps(Response) = <<>>) = (build = "main.go" \/ ~DeclaresRequests(object))

\* The second run on a pod whose first patch took a cpu and a memory limit
\* and the safe-to-evict annotation away: nothing left to do.
C8_Witness ==
  /\ UnskippedPod /\ round = 1 /\ Reviewed
  /\ ResponseOps(Response) = <<>>
  /\ object.metadata.annotations = <<EmptyMap>>
  /\ Len(object.spec.containers) > 0
  /\ object.spec.containers[1].resources.limits # None
  /\ DOMAIN object.spec.containers[1].resources.limits[1] = {"ephemeral-storage"}


----------------------------------------------------------------------------
(* HPAs and Deployments.                                                   *)

(* C9: for an HPA that is not skipped, of any of the four API versions,    *)
(* with minReplicas absent or any integer and maxReplicas any integer, the *)
(* patched object has minReplicas 1 and maxReplicas 1; no minReplicas and  *)
(* maxReplicas 10 give exactly add minReplicas 1, replace maxReplicas 1.   *)
C9_HpaPinnedToOne ==
  /\ object.kind = "HorizontalPodAutoscaler"
  /\ ~SkipIsTrue(object)
  /\ object.spec.maxReplicas # None
  =>
  /\ IsSome(patched) =>
       /\ Get(patched).ok
       /\ Get(patched).obj.spec.minReplicas = <<1>>
       /\ Get(patched).obj.spec.maxReplicas = <<1>>
  /\ Reviewed /\ object.spec.minReplicas = None /\ object.spec.maxReplicas = <<10>> =>
       ResponseOps(Response) =
         << [op |-> "add", path |-> <<"spec", "minReplicas">>,
             value |-> <<[t |-> "number", s |-> <<>>, n |-> 1]>>],
            [op |-> "replace", path |-> <<"spec", "maxReplicas">>,
             value |-> <<[t |-> "number", s |-> <<>>, n |-> 1]>>] >>

\* The example, patched: no minReplicas and maxReplicas 10, v2beta2.
C9_Witness ==
  /\ object.kind = "HorizontalPodAutoscaler"
  /\ object.apiVersion = "autoscaling/v2beta2"
  /\ ~SkipIsTrue(object)
  /\ object.spec.minReplicas = None
  /\ object.spec.maxReplicas = <<10>>
  /\ IsSome(patched)
  /\ Get(patched).obj.spec.minReplicas = <<1>>
  /\ Get(patched).obj.spec.maxReplicas = <<1>>

(* C10: for a Deployment that is not skipped, the replica generator emits  *)
(* add /spec/replicas 1 when replicas is absent, replace /spec/replicas 1  *)
(* when it is present and not 1, and nothing when it is 1; the patched     *)
(* object has replicas 1.                                                  *)
C10_ReplicasPinnedToOne ==
  object.kind = "Deployment" /\ ~SkipIsTrue(object) =>
    /\ Reviewed =>
         ResponseOps(Response) =
           IF object.spec.replicas = <<1>> THEN <<>>
           ELSE << [op |-> IF object.spec.replicas = None THEN "add" ELSE "replace",
                    path |-> <<"spec", "replicas">>,
                    value |-> <<[t |-> "number", s |-> <<>>, n |-> 1]>>] >>
    /\ IsSome(patched) =>
         Get(patched).ok /\ Get(patched).obj.spec.replicas = <<1>>

\* A Deployment without replicas, patched by an add.
C10_Witness ==
  /\ object.kind = "Deployment" /\ ~SkipIsTrue(object)
  /\ object.spec.replicas = None
  /\ IsSome(patched)
  /\ ResponseOps(Response)[1].op = "add"
  /\ Get(patched).obj.spec.replicas = <<1>>

(* C11: a StatefulSet never receives a replica patch: for a request whose   *)
(* kind is StatefulSet, with replicas absent, 0, 1 or more and with or      *)
(* without the skip annotation, the response of the replica handler has no  *)
(* operation on /spec/replicas.                                             *)
C11_StatefulSetNeverPatched ==
  IsSome(outcome) /\ object.kind = "StatefulSet" =>
    Reviewed /\ OpsAt(<<"spec", "replicas">>) = {}

----------------------------------------------------------------------------
(* The eviction guard.                                                     *)

\* The annotations of o carry safe-to-evict with the value "false".
SafeToEvictIsFalse(o) ==
  /\ o.metadata.annotations # None
  /\ SafeToEvictAnnotation \in DOMAIN o.metadata.annotations[1]
  /\ o.metadata.annotations[1][SafeToEvictAnnotation] = "false"

(* C12: for a pod that is not skipped, the patch list has a remove of       *)
(* /metadata/annotations/cluster-autoscaler.kubernetes.io~1safe-to-evict   *)
(* exactly when the pod carries that annotation with the value "false",    *)
(* whether or not a container declares requests or limits; no operation on *)
(* the annotations is emitted for "true", for any other value, for an      *)
(* absent key or for an absent map.                                        *)
C12_SafeToEvictRemovedIffFalse ==
  UnskippedPod /\ Reviewed =>
    LET ops == ResponseOps(Response)
        at == OpsAt(<<"metadata", "annotations",
                      "cluster-autoscaler.kubernetes.io~1safe-to-evict">>)
    IN /\ (\E k \in at : ops[k].op = "remove") = SafeToEvictIsFalse(object)
       /\ \A k \in 1..Len(ops) :
            ops[k].path[1] = "metadata" => k \in at /\ ops[k].op = "remove"
       /\ Cardinality(at) <= 1

\* A pod without containers whose only operation is the removal of the
\* annotation.
C12_Witness ==
  /\ UnskippedPod /\ Reviewed
  /\ SafeToEvictIsFalse(object)
  /\ object.spec.containers = <<>> /\ object.spec.initContainers = <<>>
  /\ Len(ResponseOps(Response)) = 1
  /\ ResponseOps(Response)[1].op = "remove"
  /\ ResponseOps(Response)[1].path[1] = "metadata"

----------------------------------------------------------------------------
(* Requests that fail.                                                     *)

\* The text of every quantity under the containers of o is a quantity.
QuantitiesParse(o) ==
  \A l \in {"containers", "initContainers"} : \A i \in 1..Len(o.spec[l]) :
    \A rl \in {"requests", "limits"} :
      o.spec[l][i].resources[rl] # None =>
        \A name \in DOMAIN o.spec[l][i].resources[rl][1] :
          ParseQuantity(o.spec[l][i].resources[rl][1][name]).ok

\* The body b posted to path cannot be read, is no admission envelope, or
\* carries a request whose embedded object is missing or does not decode.
Undecodable(path, b) ==
  \/ b.readErr
  \/ ~b.valid
  \/ /\ b.request # None
     /\ \/ b.request[1].object = None
        \/ b.request[1].object[1].json # "object"
        \/ path = "/mutate" /\ ~QuantitiesParse(b.request[1].object[1])

(* C13: in every handler, a body that cannot be read, an envelope that     *)
(* cannot be decoded and an embedded object that cannot be decoded end the *)
(* request with status 400 and without an admission response, and nothing  *)
(* else ends with 400; a request that ends with 400 or 500 carries no      *)
(* admission response and so no patch.                                     *)
C13_ErrorsCarryNoResponse ==
  \A c \in Conns :
    conn[c].state = "done" /\ conn[c].path # "/healthz" =>
      LET out == Get(conn[c].out)
      IN /\ Undecodable(conn[c].path, conn[c].body) =>
              out.status = 400 /\ out.review = None /\ ~out.panic
         /\ out.status = 400 => Undecodable(conn[c].path, conn[c].body)
         /\ out.status \in {400, 500} => out.review = None
         /\ out.review # None => out.status = 200

\* One request whose body could not be read and one whose pod holds a cpu
\* limit that is no quantity, both ended with 400 and no response.
C13_Witness ==
  \E c, d \in Conns :
    /\ conn[c].state = "done" /\ conn[c].body.readErr
    /\ Get(conn[c].out).status = 400 /\ Get(conn[c].out).review = None
    /\ conn[d].state = "done" /\ conn[d].path = "/mutate"
    /\ conn[d].body.request # None
    /\ conn[d].body.request[1].object # None
    /\ conn[d].body.request[1].object[1].json = "object"
    /\ ~QuantitiesParse(conn[d].body.request[1].object[1])
    /\ Get(conn[d].out).status = 400 /\ Get(conn[d].out).review = None

----------------------------------------------------------------------------
(* Patches against the object they were made for.                          *)

\* Whether the operations of ops from the i-th on, applied in list order to
\* obj, each meet the object as they need it: a remove and a replace name a
\* member that is there, an add a member that is not there yet.
RECURSIVE FitsFrom(_, _, _)
FitsFrom(obj, ops, i) ==
  IF i > Len(ops) THEN TRUE
  ELSE /\ IF ops[i].op = "add"
            THEN ParentExists(obj, ops[i].path) /\ ~PathExists(obj, ops[i].path)
            ELSE PathExists(obj, ops[i].path)
       /\ FitsFrom(ApplyOp(obj, ops[i]), ops, i + 1)

(* C14: every patch list of the pod, HPA and replica generators, applied   *)
(* operation by operation in list order to the object it was made for,     *)
(* removes and replaces only members that exist at that moment and adds    *)
(* only members that do not; this includes an HPA without spec.maxReplicas, *)
(* empty requests and limits maps, and pods with several containers and    *)
(* init containers.                                                        *)
C14_OperationsFitTheirPaths ==
  Reviewed => FitsFrom(object, ResponseOps(Response), 1)

\* An HPA the handler does not skip.
UnskippedHPA == object.kind = "HorizontalPodAutoscaler" /\ ~SkipIsTrue(object)

(* C15: the HPA generator emits no operation for minReplicas present and   *)
(* equal to 1 nor for maxReplicas equal to 1, and never an add for         *)
(* maxReplicas; run on the object obtained by applying its own patch list, *)
(* it yields an empty patch list.                                          *)
C15_HpaIdempotent ==
  UnskippedHPA =>
    /\ Reviewed =>
         /\ object.spec.minReplicas = <<1>> => OpsAt(<<"spec", "minReplicas">>) = {}
         /\ object.spec.maxReplicas = <<1>> => OpsAt(<<"spec", "maxReplicas">>) = {}
         /\ \A k \in OpsAt(<<"spec", "maxReplicas">>) :
              ResponseOps(Response)[k].op # "add"
         /\ round >= 1 => ResponseOps(Response) = <<>>
    /\ IsSome(patched) /\ Get(patched).ok =>
         hpaPatches(unmarshalHPA(Some(Get(patched).obj))) = <<>>

\* A patched HPA admitted again: both fields at 1, answered with no operation.
C15_Witness ==
  /\ UnskippedHPA
  /\ round = 1 /\ Reviewed
  /\ object.spec.minReplicas = <<1>> /\ object.spec.maxReplicas = <<1>>
  /\ ResponseOps(Response) = <<>>
  /\ Response.patch # None

----------------------------------------------------------------------------
(* Envelopes without a request.                                            *)

(* C16: for every body that decodes as an admission envelope, one without  *)
(* a request member or without an embedded object included, the handler    *)
(* ends by writing one HTTP outcome, a 400, a 500 or an admission          *)
(* response, and never reads the UID, kind or object of an absent request. *)
C16_OneOutcomePerEnvelope ==
  \A c \in Conns :
    /\ conn[c].state = "done"
    /\ conn[c].path # "/healthz"
    /\ ~conn[c].body.readErr /\ conn[c].body.valid
    =>
    /\ ~Get(conn[c].out).panic
    /\ Get(conn[c].out).status \in {400, 500, 200}
    /\ (Get(conn[c].out).status = 200) = (Get(conn[c].out).review # None)

----------------------------------------------------------------------------
(* The direction of the change to a request.                               *)

\* The replace operations of the response on the request name at place p.
Rewrites(p, name) ==
  {k \in OpsAt(PointerTo(p, "requests", name)) : ResponseOps(Response)[k].op = "replace"}

\* The quantity the k-th operation of the response writes.
Written(k) == ParseQuantity(ResponseOps(Response)[k].value[1].s)

(* C17 as stated: the cpu request and the memory request the pod generator *)
(* writes for a container or init container are never greater than the    *)
(* ones the pod declared, for every declared value and on every admission. *)
C17_RequestsOnlyReduced ==
  UnskippedPod /\ Reviewed =>
    \A p \in Places(object) :
      /\ Declares(object, p, "requests", "cpu") =>
           \A k \in Rewrites(p, "cpu") :
             MilliValue(Written(k))
               <= MilliValue(ParseQuantity(Declared(object, p, "requests", "cpu")))
      /\ Declares(object, p, "requests", "memory") =>
           \A k \in Rewrites(p, "memory") :
             Value(Written(k))
               <= Value(ParseQuantity(Declared(object, p, "requests", "memory")))

(* C17 amended: a declared cpu request of at least 1m and a declared       *)
(* memory request of at least 1 MiB are never raised; a cpu request below  *)
(* 1m (0, negative) is written as 1m and a memory request below 1 MiB as   *)
(* 1 MiB, the minimum of the build that scales requests; on every          *)
(* admission.                                                              *)
C17_RequestsReducedDownToMinimum ==
  UnskippedPod /\ Reviewed =>
    \A p \in Places(object) :
      /\ Declares(object, p, "requests", "cpu") =>
           \A k \in Rewrites(p, "cpu") :
             LET V == MilliValue(ParseQuantity(Declared(object, p, "requests", "cpu")))
                 W == MilliValue(Written(k))
             IN IF V >= 1 THEN W <= V ELSE W = 1
      /\ Declares(object, p, "requests", "memory") =>
           \A k \in Rewrites(p, "memory") :
             LET B == Value(ParseQuantity(Declared(object, p, "requests", "memory")))
                 W == Value(Written(k))
             IN IF B >= 1048576 THEN W <= B ELSE W = 1048576

\* A container that declares 2m and 512Ki: the cpu request goes down to 1m,
\* the memory request up to 1048576.
C17_Witness ==
  /\ build = "part_003" /\ UnskippedPod /\ Reviewed
  /\ Len(object.spec.containers) > 0
  /\ Declares(object, <<"containers", 1>>, "requests", "cpu")
  /\ Declares(object, <<"containers", 1>>, "requests", "memory")
  /\ Declared(object, <<"containers", 1>>, "requests", "cpu") = <<"2", "m">>
  /\ Declared(object, <<"containers", 1>>, "requests", "memory") = <<"5", "1", "2", "K", "i">>
  /\ \E k \in Rewrites(<<"containers", 1>>, "cpu") : MilliValue(Written(k)) = 1
  /\ \E k \in Rewrites(<<"containers", 1>>, "memory") : Value(Written(k)) = 1048576

====
